---- MODULE Spec2Model ----
(***************************************************************************)
(* Model of delfin's alert-source controller (delfin/api/v1/               *)
(* alert_source.py): the PUT / GET / DELETE handlers of one array's SNMP   *)
(* trap source, the field validation of the PUT body, and the brief of the *)
(* persisted record that addresses the array's existing trap registration. *)
(*                                                                         *)
(* A Python dict is a function over its possible keys; a key the dict does *)
(* not hold has the value Absent, Python's None is the value None.  An     *)
(* optional dict (a value that may be None) is a sequence of length 0 or 1.*)
(***************************************************************************)
EXTENDS Naturals, Sequences, FiniteSets, TLC

VARIABLES
    db,         \* the alert_source table: storage id -> <<>> or <<record>>
    req,        \* the request being served: <<>> or <<[op, id, body, ...]>>
    resp,       \* its response: <<>> or <<[status, view]>>
    steps,      \* the steps the handler took, in order: <<[call, ok], ...>>
    syncCalls   \* the sync_snmp_config calls it issued: <<[old, new]>>

vars == <<db, req, resp, steps, syncCalls>>

(***************************************************************************)
(* Values                                                                  *)
(***************************************************************************)
None == "<None>"
Absent == "<Absent>"

\* number of distinct user names a request may carry
NumUsers == 2

UserName == <<"u1", "u2", "u3", "u4">>
UserNames == {UserName[i] : i \in 1..NumUsers}

\* storage ids: Storages have a storage record, UnknownStorage has none
Storages == {"S1"}
UnknownStorage == "S0"
StorageIds == Storages \cup {UnknownStorage}

Versions == {"SNMPv2c", "SNMPv3", "snmpv3"}
SecurityLevels == {"NoAuthNoPriv", "AuthNoPriv", "AuthPriv"}
WellFormedEngineIds == {"800000d30300000e112245"}
MalformedEngineIds == {"zz"}

SNMPv3_keys == {"username", "auth_key", "security_level", "auth_protocol",
                "privacy_protocol", "privacy_key", "engine_id"}
BodyKeys == {"version", "community_string"} \cup SNMPv3_keys
RecordKeys == {"storage_id"} \cup BodyKeys
SecretKeys == {"auth_key", "privacy_key", "community_string"}

\* the PUT bodies the model draws its requests from
Bodies ==
    [version : Versions,
     community_string : {Absent, "", "public"},
     username : {Absent} \cup UserNames,
     security_level : {Absent} \cup SecurityLevels,
     engine_id : {Absent} \cup WellFormedEngineIds \cup MalformedEngineIds,
     auth_protocol : {Absent, "MD5"},
     auth_key : {Absent, "k1"},
     privacy_protocol : {Absent, "DES"},
     privacy_key : {Absent, "k2"}]

(***************************************************************************)
(* Python and library helpers                                              *)
(***************************************************************************)
\* dict.get(key): None for a key the dict does not hold
Get(d, k) == IF d[k] = Absent THEN None ELSE d[k]

\* "not value" for a value that is None or a string
Falsy(v) == v = None \/ v = ""

\* str.lower() on the version strings
Lower(s) ==
    CASE s = "SNMPv3"  -> "snmpv3"
      [] s = "SNMPv2c" -> "snmpv2c"
      [] s = "SNMPv1"  -> "snmpv1"
      [] OTHER         -> s

\* cryptor.encode / cryptor.decode
Encode(plain) == "enc:" \o plain
Plaintexts == {"", "public", "k1", "k2"}
IsEncoded(v) == \E p \in Plaintexts : v = Encode(p)
Decode(cipher) == CHOOSE p \in Plaintexts : Encode(p) = cipher

\* snmp_validator.validate_engine_id: TRUE when it returns, FALSE when it raises
ValidateEngineId(engine_id) == engine_id \notin MalformedEngineIds

\* snmp_validator.validate_connectivity: returns the alert source it is given
\* when the array answers (reachable), raises otherwise
ValidateConnectivity(alert_source, plain_auth_key, plain_priv_key, reachable) ==
    [error |-> IF reachable THEN None ELSE "SNMPConnectionFailed",
     alert_source |-> alert_source]

\* a step of a handler: the call or check, and whether it returned (ok) or
\* raised
Ok(call) == [call |-> call, ok |-> TRUE]
Failed(call) == [call |-> call, ok |-> FALSE]

\* alert_source[key] = value
Set(d, k, v) == [d EXCEPT ![k] = v]

\* for k in keys: alert_source[k] = None
ClearKeys(d, keys) == [k \in DOMAIN d |-> IF k \in keys THEN None ELSE d[k]]

(***************************************************************************)
(* AlertSourceController._input_check, up to the connectivity validation:  *)
(* the field checks, the encoding of the keys and the clearing of the      *)
(* other versions' fields.  error is None when no check raised.            *)
(***************************************************************************)
Raise(error, steps_done) ==
    [error |-> error, alert_source |-> <<>>, plain_auth_key |-> None,
     plain_priv_key |-> None, steps |-> steps_done]

FieldCheckV3(alert_source) ==
    LET user_name == Get(alert_source, "username")
        security_level == Get(alert_source, "security_level")
        engine_id == Get(alert_source, "engine_id")
        auth_protocol == Get(alert_source, "auth_protocol")
        auth_key == Get(alert_source, "auth_key")
        privacy_protocol == Get(alert_source, "privacy_protocol")
        privacy_key == Get(alert_source, "privacy_key")
        checked == <<Ok("validate_engine_id"), Ok("field_check")>>
        rejected == <<Ok("validate_engine_id"), Failed("field_check")>>
    IN  IF ~ValidateEngineId(engine_id)
        THEN Raise("InvalidInput", <<Failed("validate_engine_id")>>)
        ELSE IF Falsy(user_name) \/ Falsy(security_level) \/ Falsy(engine_id)
        THEN Raise("InvalidInput", rejected)
        ELSE IF security_level = "AuthNoPriv" \/ security_level = "AuthPriv"
        THEN IF Falsy(auth_protocol) \/ Falsy(auth_key)
             THEN Raise("InvalidInput", rejected)
             ELSE LET a1 == Set(alert_source, "auth_key",
                                Encode(alert_source["auth_key"]))
                  IN  IF security_level = "AuthPriv"
                      THEN IF Falsy(privacy_protocol) \/ Falsy(privacy_key)
                           THEN Raise("InvalidInput", rejected)
                           ELSE [error |-> None,
                                 alert_source |->
                                     <<Set(Set(a1, "privacy_key",
                                               Encode(a1["privacy_key"])),
                                           "community_string", None)>>,
                                 plain_auth_key |-> alert_source["auth_key"],
                                 plain_priv_key |-> alert_source["privacy_key"],
                                 steps |-> checked]
                      ELSE [error |-> None,
                            alert_source |->
                                <<ClearKeys(a1, {"privacy_key", "privacy_protocol",
                                                 "community_string"})>>,
                            plain_auth_key |-> alert_source["auth_key"],
                            plain_priv_key |-> None,
                            steps |-> checked]
        ELSE [error |-> None,
              alert_source |->
                  <<ClearKeys(alert_source,
                              {"auth_key", "auth_protocol", "privacy_key",
                               "privacy_protocol", "community_string"})>>,
              plain_auth_key |-> None,
              plain_priv_key |-> None,
              steps |-> checked]

\* a community check that accepts an empty community_string
FieldCheckCommunityAllowsEmpty(alert_source) ==
    LET community_string == Get(alert_source, "community_string")
    IN  IF community_string = None
        THEN Raise("InvalidInput", <<Failed("field_check")>>)
        ELSE [error |-> None,
              alert_source |-> <<ClearKeys(alert_source, SNMPv3_keys)>>,
              plain_auth_key |-> None,
              plain_priv_key |-> None,
              steps |-> <<Ok("field_check")>>]

\* a community check that leaves the SNMPv3 keys of the body as they are
FieldCheckCommunityKeepsV3(alert_source) ==
    LET community_string == Get(alert_source, "community_string")
    IN  IF Falsy(community_string)
        THEN Raise("InvalidInput", <<Failed("field_check")>>)
        ELSE [error |-> None,
              alert_source |-> <<alert_source>>,
              plain_auth_key |-> None,
              plain_priv_key |-> None,
              steps |-> <<Ok("field_check")>>]

FieldCheckCommunity(alert_source) ==
    LET community_string == Get(alert_source, "community_string")
    IN  IF Falsy(community_string)
        THEN Raise("InvalidInput", <<Failed("field_check")>>)
        ELSE [error |-> None,
              alert_source |-> <<ClearKeys(alert_source, SNMPv3_keys)>>,
              plain_auth_key |-> None,
              plain_priv_key |-> None,
              steps |-> <<Ok("field_check")>>]

FieldCheck(alert_source) ==
    IF Lower(Get(alert_source, "version")) = "snmpv3"
    THEN FieldCheckV3(alert_source)
    ELSE FieldCheckCommunity(alert_source)

\* an input check that goes on when the connectivity validation raises
InputCheckIgnoresConnectivity(alert_source, reachable) ==
    LET f == FieldCheck(alert_source)
    IN  IF f.error # None
        THEN [error |-> f.error, alert_source |-> <<>>, steps |-> f.steps]
        ELSE [error |-> None,
              alert_source |-> f.alert_source,
              steps |-> f.steps \o <<IF reachable
                                      THEN Ok("validate_connectivity")
                                      ELSE Failed("validate_connectivity")>>]

\* AlertSourceController._input_check: the field checks, then the
\* connectivity validation of the checked alert source
InputCheck(alert_source, reachable) ==
    LET f == FieldCheck(alert_source)
    IN  IF f.error # None
        THEN [error |-> f.error, alert_source |-> <<>>, steps |-> f.steps]
        ELSE LET v == ValidateConnectivity(f.alert_source[1], f.plain_auth_key,
                                           f.plain_priv_key, reachable)
             IN  [error |-> v.error,
                  alert_source |-> IF v.error = None THEN <<v.alert_source>>
                                   ELSE <<>>,
                  steps |-> f.steps \o
                            <<IF v.error = None
                              THEN Ok("validate_connectivity")
                              ELSE Failed("validate_connectivity")>>]

(***************************************************************************)
(* The persistence layer (delfin.db) and the response view                 *)
(***************************************************************************)
\* db.storage_get: TRUE when it returns, FALSE when it raises StorageNotFound
StorageGet(storage_id) == storage_id \in Storages

\* db.alert_source_get: <<>> stands for raising AlertSourceNotFound
AlertSourceGet(d, storage_id) == d[storage_id]

\* the step db.alert_source_get makes: it raises when no record is found
AlertSourceGetStep(d, storage_id) ==
    IF AlertSourceGet(d, storage_id) = <<>>
    THEN Failed("alert_source_get")
    ELSE Ok("alert_source_get")

\* db.alert_source_create: a new row; a column the values do not hold is null
AlertSourceCreate(values) ==
    [k \in RecordKeys |-> IF values[k] = Absent THEN None ELSE values[k]]

\* db.alert_source_update: the row with the columns the values hold overwritten
AlertSourceUpdate(d, storage_id, values) ==
    LET row == d[storage_id][1]
    IN  [k \in RecordKeys |-> IF values[k] = Absent THEN row[k] ELSE values[k]]

\* alert_view.build_alert_source(alert_source.to_dict())
BuildAlertSource(alert_source) == [k \in RecordKeys |-> alert_source[k]]

\* a brief that reports the version in lower case
GetSnmpConfigBriefLowered(d, storage_id) ==
    LET found == AlertSourceGet(d, storage_id)
    IN  IF found = <<>>
        THEN <<>>
        ELSE LET alert_source == found[1]
             IN  IF Lower(alert_source["version"]) = "snmpv3"
                 THEN <<[storage_id |-> alert_source["storage_id"],
                         version |-> Lower(alert_source["version"]),
                         username |-> alert_source["username"],
                         engine_id |-> alert_source["engine_id"]]>>
                 ELSE <<[storage_id |-> alert_source["storage_id"],
                         version |-> Lower(alert_source["version"])]>>

\* a brief that compares the version without lowering it
GetSnmpConfigBriefCaseSensitive(d, storage_id) ==
    LET found == AlertSourceGet(d, storage_id)
    IN  IF found = <<>>
        THEN <<>>
        ELSE LET alert_source == found[1]
             IN  IF alert_source["version"] = "snmpv3"
                 THEN <<[storage_id |-> alert_source["storage_id"],
                         version |-> alert_source["version"],
                         username |-> alert_source["username"],
                         engine_id |-> alert_source["engine_id"]]>>
                 ELSE <<[storage_id |-> alert_source["storage_id"],
                         version |-> alert_source["version"]]>>

(***************************************************************************)
(* AlertSourceController._get_snmp_config_brief: the fields that address   *)
(* the array's existing trap registration, <<>> when no record is found    *)
(***************************************************************************)
GetSnmpConfigBrief(d, storage_id) ==
    LET found == AlertSourceGet(d, storage_id)
    IN  IF found = <<>>
        THEN <<>>
        ELSE LET alert_source == found[1]
             IN  IF Lower(alert_source["version"]) = "snmpv3"
                 THEN <<[storage_id |-> alert_source["storage_id"],
                         version |-> alert_source["version"],
                         username |-> alert_source["username"],
                         engine_id |-> alert_source["engine_id"]]>>
                 ELSE <<[storage_id |-> alert_source["storage_id"],
                         version |-> alert_source["version"]]>>

\* AlertSourceController._decrypt_auth_key
DecryptAuthKey(alert_source) ==
    LET auth_key == Get(alert_source, "auth_key")
        privacy_key == Get(alert_source, "privacy_key")
        a1 == IF ~Falsy(auth_key)
              THEN Set(alert_source, "auth_key", Decode(auth_key))
              ELSE alert_source
    IN  IF ~Falsy(privacy_key)
        THEN Set(a1, "privacy_key", Decode(privacy_key))
        ELSE a1

(***************************************************************************)
(* The handlers                                                            *)
(***************************************************************************)
Request(op, id, body) == <<[op |-> op, id |-> id, body |-> body]>>

Respond(status, view) == <<[status |-> status, view |-> view]>>

\* a put that never takes the update path
PutPersistAlwaysCreate(d, storage_id, snmp_config_to_del, alert_source) ==
    [step |-> "alert_source_create", row |-> AlertSourceCreate(alert_source)]

\* put, lines 48-52: update when an old configuration exists, else create
PutPersist(d, storage_id, snmp_config_to_del, alert_source) ==
    IF snmp_config_to_del # <<>>
    THEN [step |-> "alert_source_update",
          row |-> AlertSourceUpdate(d, storage_id, alert_source)]
    ELSE [step |-> "alert_source_create",
          row |-> AlertSourceCreate(alert_source)]

\* AlertSourceController.put
Put(id, body, reachable, delivered) ==
    /\ req = <<>>
    /\ req' = Request("put", id, <<body>>)
    /\ LET alert_source ==
               [k \in RecordKeys |-> IF k = "storage_id" THEN id ELSE body[k]]
       IN  IF ~StorageGet(id)
           THEN /\ resp' = Respond("StorageNotFound", <<>>)
                /\ steps' = <<Failed("storage_get")>>
                /\ syncCalls' = <<>>
                /\ db' = db
           ELSE LET checked == InputCheck(alert_source, reachable)
                IN  IF checked.error # None
                    THEN /\ resp' = Respond(checked.error, <<>>)
                         /\ steps' = <<Ok("storage_get")>> \o checked.steps
                         /\ syncCalls' = <<>>
                         /\ db' = db
                    ELSE LET snmp_config_to_del == GetSnmpConfigBrief(db, id)
                             persisted == PutPersist(db, id, snmp_config_to_del,
                                                     checked.alert_source[1])
                         IN  /\ db' = [db EXCEPT ![id] = <<persisted.row>>]
                             /\ steps' = <<Ok("storage_get")>> \o checked.steps \o
                                         <<AlertSourceGetStep(db, id),
                                           Ok(persisted.step),
                                           IF delivered
                                           THEN Ok("sync_snmp_config")
                                           ELSE Failed("sync_snmp_config")>>
                             /\ syncCalls' = <<[old |-> snmp_config_to_del,
                                                new |-> <<persisted.row>>]>>
                             /\ resp' = IF delivered
                                        THEN Respond("200",
                                                 <<BuildAlertSource(persisted.row)>>)
                                        ELSE Respond("RPCError", <<>>)

\* AlertSourceController.show
Show(id) ==
    /\ req = <<>>
    /\ req' = Request("show", id, <<>>)
    /\ LET found == AlertSourceGet(db, id)
       IN  resp' = IF found = <<>>
                   THEN Respond("AlertSourceNotFound", <<>>)
                   ELSE Respond("200", <<BuildAlertSource(found[1])>>)
    /\ steps' = <<AlertSourceGetStep(db, id)>>
    /\ syncCalls' = <<>>
    /\ db' = db

\* a delete that treats a missing record as done
DeleteSilently(id, delivered) ==
    /\ req = <<>>
    /\ req' = Request("delete", id, <<>>)
    /\ LET snmp_config_to_del == GetSnmpConfigBrief(db, id)
       IN  /\ syncCalls' = <<[old |-> snmp_config_to_del, new |-> <<>>]>>
           /\ db' = [db EXCEPT ![id] = <<>>]
           /\ steps' = <<AlertSourceGetStep(db, id), Ok("sync_snmp_config"),
                         Ok("alert_source_delete")>>
           /\ resp' = Respond("200", <<>>)

\* a delete that deletes the persisted record before it calls the array
DeleteRecordFirst(id, delivered) ==
    /\ req = <<>>
    /\ req' = Request("delete", id, <<>>)
    /\ LET snmp_config_to_del == GetSnmpConfigBrief(db, id)
       IN  IF snmp_config_to_del # <<>>
           THEN /\ syncCalls' = <<[old |-> snmp_config_to_del, new |-> <<>>]>>
                /\ db' = [db EXCEPT ![id] = <<>>]
                /\ steps' = <<Ok("alert_source_get"), Ok("alert_source_delete"),
                              IF delivered THEN Ok("sync_snmp_config")
                              ELSE Failed("sync_snmp_config")>>
                /\ resp' = IF delivered THEN Respond("200", <<>>)
                           ELSE Respond("RPCError", <<>>)
           ELSE /\ syncCalls' = <<>>
                /\ db' = db
                /\ steps' = <<Failed("alert_source_get")>>
                /\ resp' = Respond("AlertSourceNotFound", <<>>)

\* AlertSourceController.delete
Delete(id, delivered) ==
    /\ req = <<>>
    /\ req' = Request("delete", id, <<>>)
    /\ LET snmp_config_to_del == GetSnmpConfigBrief(db, id)
       IN  IF snmp_config_to_del # <<>>
           THEN /\ syncCalls' = <<[old |-> snmp_config_to_del, new |-> <<>>]>>
                /\ IF delivered
                   THEN /\ db' = [db EXCEPT ![id] = <<>>]
                        /\ steps' = <<Ok("alert_source_get"),
                                      Ok("sync_snmp_config"),
                                      Ok("alert_source_delete")>>
                        /\ resp' = Respond("200", <<>>)
                   ELSE /\ db' = db
                        /\ steps' = <<Ok("alert_source_get"),
                                      Failed("sync_snmp_config")>>
                        /\ resp' = Respond("RPCError", <<>>)
           ELSE /\ syncCalls' = <<>>
                /\ db' = db
                /\ steps' = <<Failed("alert_source_get")>>
                /\ resp' = Respond("AlertSourceNotFound", <<>>)

\* the sequence numbers a request to clear an alert may name
SequenceNumbers == {"1", "2"}

\* driver_manager.clear_alert(ctx, id, sequence_number), and whether it
\* returned
DriverClearAlert(storage_id, sequence_number, cleared) ==
    [call |-> "clear_alert", ok |-> cleared, storage_id |-> storage_id,
     sequence_number |-> sequence_number]

\* a delete of an alert that does not look the storage up
AlertDeleteUnchecked(id, sequence_number, cleared) ==
    /\ req' = Request("alert_delete", id, <<sequence_number>>)
    /\ steps' = <<DriverClearAlert(id, sequence_number, cleared)>>
    /\ resp' = IF cleared
               THEN Respond("200", <<>>)
               ELSE Respond("StorageBackendException", <<>>)
    /\ syncCalls' = <<>>
    /\ db' = db

\* AlertController.delete (delfin/api/v1/alerts.py)
AlertDelete(id, sequence_number, cleared) ==
    /\ req' = Request("alert_delete", id, <<sequence_number>>)
    /\ IF ~StorageGet(id)
       THEN /\ steps' = <<Failed("storage_get")>>
            /\ resp' = Respond("StorageNotFound", <<>>)
       ELSE /\ steps' = <<Ok("storage_get"),
                          DriverClearAlert(id, sequence_number, cleared)>>
            /\ resp' = IF cleared
                       THEN Respond("200", <<>>)
                       ELSE Respond("StorageBackendException", <<>>)
    /\ syncCalls' = <<>>
    /\ db' = db

\* the response is sent and the controller waits for the next request
Return ==
    /\ req # <<>>
    /\ req' = <<>>
    /\ resp' = <<>>
    /\ steps' = <<>>
    /\ syncCalls' = <<>>
    /\ db' = db

Init ==
    /\ db = [id \in StorageIds |-> <<>>]
    /\ req = <<>>
    /\ resp = <<>>
    /\ steps = <<>>
    /\ syncCalls = <<>>

\* the idle controller is handed a request and serves it
PutRequest ==
    /\ req = <<>>
    /\ \E id \in StorageIds, body \in Bodies, reachable \in BOOLEAN,
          delivered \in BOOLEAN : Put(id, body, reachable, delivered)

ShowRequest ==
    /\ req = <<>>
    /\ \E id \in StorageIds : Show(id)

DeleteRequest ==
    /\ req = <<>>
    /\ \E id \in StorageIds, delivered \in BOOLEAN : Delete(id, delivered)

AlertDeleteRequest ==
    /\ req = <<>>
    /\ \E id \in StorageIds, sequence_number \in SequenceNumbers,
          cleared \in BOOLEAN : AlertDelete(id, sequence_number, cleared)

Next ==
    \/ PutRequest
    \/ ShowRequest
    \/ DeleteRequest
    \/ AlertDeleteRequest
    \/ Return

Spec == Init /\ [][Next]_vars

(***************************************************************************)
(* Vocabulary of the properties                                            *)
(***************************************************************************)
\* the handler of op has just run on the request req holds
Served(op) == req # <<>> /\ req[1].op = op
Status == resp[1].status

\* this step is the handler of op serving a request
Serves(op) == req = <<>> /\ req' # <<>> /\ req'[1].op = op

\* the positions of the steps that are a call of one of the names
Positions(log, names) == {i \in 1..Len(log) : log[i].call \in names}
Called(log, names) == Positions(log, names) # {}
PersistCalls == {"alert_source_create", "alert_source_update"}

\* a version string that names SNMPv3, in any letter case
IsV3(version) == version \in {"SNMPv3", "snmpv3", "SNMPV3", "snmpV3"}

\* the identity of the trap registration a persisted row was added with
Identity(row) ==
    IF IsV3(row["version"])
    THEN [storage_id |-> row["storage_id"], version |-> row["version"],
          username |-> row["username"], engine_id |-> row["engine_id"]]
    ELSE [storage_id |-> row["storage_id"], version |-> row["version"]]

\* C1: a PUT that passes validation looks up the persisted record of the
\* storage id, persists the new configuration with exactly one write (an
\* update when a record existed, a create otherwise), and issues exactly one
\* sync_snmp_config call whose old side is the identity of the record that
\* existed (null when none did) and whose new side is the record just
\* persisted; a PUT that moves a record from SNMPv2c to SNMPv3 passes
\* old = {storage_id, version: SNMPv2c}.
C1_PutReconciles ==
    [][(Serves("put") /\ resp'[1].status \in {"200", "RPCError"}) =>
        LET id == req'[1].id
            old == db[id]
            writes == Positions(steps', PersistCalls)
            syncs == Positions(steps', {"sync_snmp_config"})
        IN  /\ Called(steps', {"alert_source_get"})
            /\ Cardinality(writes) = 1
            /\ \A i \in writes :
                   steps'[i].call = IF old = <<>> THEN "alert_source_create"
                                    ELSE "alert_source_update"
            /\ Cardinality(syncs) = 1
            /\ Len(syncCalls') = 1
            /\ syncCalls'[1].old = IF old = <<>> THEN <<>>
                                   ELSE <<Identity(old[1])>>
            /\ db'[id] # <<>>
            /\ syncCalls'[1].new = db'[id]
            /\ db'[id][1]["storage_id"] = id
            /\ db'[id][1]["version"] = req'[1].body[1]["version"]
            /\ \A other \in StorageIds \ {id} : db'[other] = db[other]
            /\ (old # <<>> /\ old[1]["version"] = "SNMPv2c"
                  /\ IsV3(req'[1].body[1]["version"]))
               => syncCalls'[1].old =
                      <<[storage_id |-> id, version |-> "SNMPv2c"]>>
      ]_vars

\* C1 witness: the second PUT of the scenario, SNMPv2c replaced by SNMPv3
C1_Witness ==
    /\ Served("put")
    /\ Status = "200"
    /\ syncCalls = <<[old |-> <<[storage_id |-> "S1", version |-> "SNMPv2c"]>>,
                     new |-> db["S1"]]>>
    /\ db["S1"][1]["version"] = "SNMPv3"
    /\ db["S1"][1]["security_level"] = "AuthPriv"

\* every position of A is before every position of B
Before(A, B) == \A i \in A, j \in B : i < j
AllOk(log, at) == \A i \in at : log[i].ok

\* C2: in a PUT the field validation comes before the connectivity
\* validation, that before the persisted write, and that before the sync
\* call, each step taken only when the one before it passed; when the field
\* validation or the connectivity validation fails the PUT is refused, no
\* record is created or updated and no sync call is issued.
C2_ValidationBeforeWrites ==
    [][Serves("put") =>
        LET log == steps'
            field == Positions(log, {"validate_engine_id", "field_check"})
            conn == Positions(log, {"validate_connectivity"})
            writes == Positions(log, PersistCalls)
            syncs == Positions(log, {"sync_snmp_config"})
            refused == \E i \in field \cup conn : ~log[i].ok
        IN  /\ Before(field, conn) /\ Before(conn, writes) /\ Before(writes, syncs)
            /\ conn # {} => Called(log, {"field_check"}) /\ AllOk(log, field)
            /\ writes # {} => conn # {} /\ AllOk(log, conn)
            /\ syncs # {} => writes # {}
            /\ Len(syncCalls') = Cardinality(syncs)
            /\ writes = {} => db' = db
            /\ refused =>
                 /\ resp'[1].status \in {"InvalidInput", "SNMPConnectionFailed"}
                 /\ writes = {} /\ syncs = {}
                 /\ syncCalls' = <<>>
                 /\ db' = db
      ]_vars

\* C2 witness: a PUT on an existing record passes the field validation and
\* fails the connectivity validation
C2_Witness ==
    /\ Served("put")
    /\ Status = "SNMPConnectionFailed"
    /\ Called(steps, {"field_check"})
    /\ \E i \in Positions(steps, {"validate_connectivity"}) : ~steps[i].ok
    /\ db[req[1].id] # <<>>
    /\ db[req[1].id][1]["version"] # req[1].body[1]["version"]

\* C3: a DELETE for a storage id that has no persisted record fails with
\* AlertSourceNotFound, issues no sync_snmp_config call and leaves every
\* persisted record as it was.
C3_DeleteMissingFails ==
    [][(Serves("delete") /\ db[req'[1].id] = <<>>) =>
        /\ resp'[1].status = "AlertSourceNotFound"
        /\ syncCalls' = <<>>
        /\ ~Called(steps', {"sync_snmp_config", "alert_source_delete"})
        /\ db' = db
      ]_vars

\* C3 witness: a DELETE for a storage that has no alert source
C3_Witness ==
    /\ Served("delete")
    /\ req[1].id \in Storages
    /\ db[req[1].id] = <<>>
    /\ Status = "AlertSourceNotFound"

\* C4: a DELETE of an existing alert source issues the removal of the
\* array-side registration (sync_snmp_config with the old identity and no new
\* configuration) before it deletes the persisted record, and deletes the
\* record only when that call returned; when the call fails the record stays.
C4_DeleteRemovesRegistrationFirst ==
    [][(Serves("delete") /\ db[req'[1].id] # <<>>) =>
        LET id == req'[1].id
            syncs == Positions(steps', {"sync_snmp_config"})
            deletes == Positions(steps', {"alert_source_delete"})
        IN  /\ syncCalls' = <<[old |-> <<Identity(db[id][1])>>, new |-> <<>>]>>
            /\ Cardinality(syncs) = 1
            /\ Before(syncs, deletes)
            /\ deletes # {} => AllOk(steps', syncs)
            /\ db'[id] = <<>> <=> deletes # {}
            /\ AllOk(steps', syncs) => db'[id] = <<>> /\ resp'[1].status = "200"
            /\ ~AllOk(steps', syncs) => db' = db /\ resp'[1].status # "200"
      ]_vars

\* C4 witness: the removal call of a DELETE failed and the record is kept
C4_Witness ==
    /\ Served("delete")
    /\ \E i \in Positions(steps, {"sync_snmp_config"}) : ~steps[i].ok
    /\ db[req[1].id] # <<>>
    /\ Len(syncCalls) = 1 /\ syncCalls[1].new = <<>>

\* a body field that is missing or empty
Missing(body, k) == body[k] = Absent \/ body[k] = ""

\* the four cases in which the field validation is said to refuse a body
ListedInvalid(body) ==
    LET v3 == IsV3(body["version"])
        level == body["security_level"]
    IN  \/ ~v3 /\ Missing(body, "community_string")
        \/ v3 /\ \E k \in {"username", "security_level", "engine_id"} :
                     Missing(body, k)
        \/ v3 /\ level \in {"AuthNoPriv", "AuthPriv"}
              /\ \E k \in {"auth_protocol", "auth_key"} : Missing(body, k)
        \/ v3 /\ level = "AuthPriv"
              /\ \E k \in {"privacy_protocol", "privacy_key"} : Missing(body, k)

\* the engine id of an SNMPv3 body is present and is not a set of octets
MalformedEngineId(body) ==
    IsV3(body["version"]) /\ body["engine_id"] \in MalformedEngineIds

\* C5 as stated: the field validation of a PUT body raises InvalidInput
\* exactly in the four listed cases (no community_string for a version other
\* than SNMPv3; no username, security_level or engine_id for SNMPv3; no
\* auth_protocol or auth_key for AuthNoPriv and AuthPriv; no privacy_protocol
\* or privacy_key for AuthPriv).
C5_InvalidInputExactlyListed ==
    (Served("put") /\ req[1].id \in Storages) =>
        (Status = "InvalidInput" <=> ListedInvalid(req[1].body[1]))

\* C5 as amended: the field validation of a PUT body raises InvalidInput
\* exactly in the four listed cases and when the body is SNMPv3 and its
\* engine_id is malformed; AuthPriv without privacy_key is refused,
\* AuthNoPriv needs no privacy field and NoAuthNoPriv needs only username
\* and engine_id.
C5_InvalidInputExactly ==
    (Served("put") /\ req[1].id \in Storages) =>
        LET body == req[1].body[1]
        IN  /\ Status = "InvalidInput" <=>
                   (ListedInvalid(body) \/ MalformedEngineId(body))
            /\ Status = "InvalidInput" =>
                   \E i \in Positions(steps, {"validate_engine_id", "field_check"}) :
                       ~steps[i].ok

\* C5 witness: an SNMPv3 AuthPriv body that lacks only privacy_key is refused
C5_Witness ==
    /\ Served("put")
    /\ req[1].id \in Storages
    /\ Status = "InvalidInput"
    /\ LET body == req[1].body[1]
       IN  /\ body["version"] = "SNMPv3"
           /\ body["security_level"] = "AuthPriv"
           /\ body["privacy_key"] = Absent
           /\ \A k \in {"username", "engine_id", "auth_protocol", "auth_key",
                        "privacy_protocol"} : ~Missing(body, k)
           /\ ~MalformedEngineId(body)

\* C6: every persisted alert-source record holds the fields of its own
\* version only: for a version other than SNMPv3 the seven SNMPv3 fields are
\* null and community_string is set; for SNMPv3 community_string is null,
\* privacy_key and privacy_protocol are null unless security_level is
\* AuthPriv, auth_key and auth_protocol are null unless security_level is
\* AuthNoPriv or AuthPriv, and the keys the level requires are set.
C6_OneVersionsFields ==
    \A id \in StorageIds :
        db[id] # <<>> =>
            LET row == db[id][1]
                level == row["security_level"]
            IN  /\ \A k \in RecordKeys : row[k] # Absent
                /\ IF IsV3(row["version"])
                   THEN /\ row["community_string"] = None
                        /\ level # "AuthPriv" =>
                               /\ row["privacy_key"] = None
                               /\ row["privacy_protocol"] = None
                        /\ level \notin {"AuthNoPriv", "AuthPriv"} =>
                               /\ row["auth_key"] = None
                               /\ row["auth_protocol"] = None
                        /\ level \in {"AuthNoPriv", "AuthPriv"} =>
                               ~Falsy(row["auth_key"])
                        /\ level = "AuthPriv" => ~Falsy(row["privacy_key"])
                   ELSE /\ \A k \in SNMPv3_keys : row[k] = None
                        /\ ~Falsy(row["community_string"])

\* C6 witness: a PUT whose body carries SNMPv3 fields replaced an SNMPv3
\* record by an SNMPv2c record
C6_Witness ==
    /\ Served("put")
    /\ Status = "200"
    /\ Called(steps, {"alert_source_update"})
    /\ IsV3(syncCalls[1].old[1].version)
    /\ db[req[1].id][1]["version"] = "SNMPv2c"
    /\ \A k \in SNMPv3_keys : req[1].body[1][k] # Absent

\* C7: every secret PUT hands to the persistence layer (auth_key,
\* privacy_key, community_string) is in encoded form, never the plaintext of
\* the request.
C7_SecretsStoredEncoded ==
    \A id \in StorageIds :
        db[id] # <<>> =>
            \A k \in SecretKeys :
                db[id][1][k] = None \/ IsEncoded(db[id][1][k])

\* C8: a GET returns the persisted record with its secrets decoded, that is
\* equal to the plaintext the PUT was given.
C8_ShowReturnsPlaintext ==
    (Served("show") /\ Status = "200") =>
        LET row == db[req[1].id][1]
            view == resp[1].view[1]
        IN  /\ view["auth_key"] = DecryptAuthKey(row)["auth_key"]
            /\ view["privacy_key"] = DecryptAuthKey(row)["privacy_key"]
            /\ ~IsEncoded(view["community_string"])

\* the record an accepted PUT of the body writes for the storage id
Written(id, body) ==
    AlertSourceCreate(
        FieldCheck([k \in RecordKeys |->
                       IF k = "storage_id" THEN id ELSE body[k]]).alert_source[1])

\* C9: a PUT that repeats the PUT which wrote the persisted record passes the
\* field validation again, leaves the one persisted record as it is, takes
\* the update path, and issues a sync call whose old side names the same
\* registration as its new side: the same storage_id and version and, for
\* SNMPv3, the same username and engine_id.
C9_PutIdempotent ==
    [][(/\ Serves("put")
        /\ req'[1].id \in Storages
        /\ ~ListedInvalid(req'[1].body[1])
        /\ ~MalformedEngineId(req'[1].body[1])
        /\ db[req'[1].id] = <<Written(req'[1].id, req'[1].body[1])>>) =>
        /\ db' = db
        /\ resp'[1].status \in {"200", "RPCError", "SNMPConnectionFailed"}
        /\ resp'[1].status \in {"200", "RPCError"} =>
            /\ Called(steps', {"alert_source_update"})
            /\ ~Called(steps', {"alert_source_create"})
            /\ Len(syncCalls') = 1
            /\ syncCalls'[1].old # <<>>
            /\ LET old == syncCalls'[1].old[1]
                   new == syncCalls'[1].new[1]
               IN  /\ old.storage_id = new["storage_id"]
                   /\ old.version = new["version"]
                   /\ IsV3(new["version"]) =>
                          /\ {"username", "engine_id"} \subseteq DOMAIN old
                          /\ old.username = new["username"]
                          /\ old.engine_id = new["engine_id"]
      ]_vars

\* C9 witness: an SNMPv3 PUT repeated on the record it wrote
C9_Witness ==
    /\ Served("put")
    /\ Status = "200"
    /\ Called(steps, {"alert_source_update"})
    /\ IsV3(req[1].body[1]["version"])
    /\ db[req[1].id] = <<Written(req[1].id, req[1].body[1])>>
    /\ syncCalls[1].old = <<Identity(syncCalls[1].new[1])>>

\* C10: the old side of every sync call holds storage_id and version of the
\* record persisted before the call, username and engine_id as well exactly
\* when that record's version is SNMPv3 in any letter case, and no other
\* field; it is null exactly when no record was persisted.
C10_BriefIsMinimal ==
    [][(req = <<>> /\ req' # <<>> /\ syncCalls' # <<>>) =>
        LET found == db[req'[1].id]
            old == syncCalls'[1].old
        IN  /\ old = <<>> <=> found = <<>>
            /\ found # <<>> =>
                /\ DOMAIN old[1] =
                       {"storage_id", "version"} \cup
                       (IF IsV3(found[1]["version"])
                        THEN {"username", "engine_id"} ELSE {})
                /\ \A k \in DOMAIN old[1] : old[1][k] = found[1][k]
                /\ DOMAIN old[1] \cap (SecretKeys \cup {"auth_protocol",
                       "privacy_protocol", "security_level"}) = {}
      ]_vars

\* C10 witness: a DELETE of an SNMPv3 record whose version is not written
\* in lower case passes username and engine_id
C10_Witness ==
    /\ Served("delete")
    /\ Len(syncCalls) = 1
    /\ syncCalls[1].old # <<>>
    /\ syncCalls[1].old[1].version = "SNMPv3"
    /\ DOMAIN syncCalls[1].old[1] =
           {"storage_id", "version", "username", "engine_id"}

(***************************************************************************)
(* The HPE 3PAR alert handler (delfin/drivers/hpe/hpe_3par/                *)
(* alert_handler.py).  A call of the handler is served like a request of   *)
(* the controller: req holds the call and its argument, resp what it       *)
(* returned or raised, steps the commands it sent over SSH.  The handler   *)
(* keeps no state of its own between two calls.                            *)
(***************************************************************************)
\* delfin.common.constants
Severity ==
    [CRITICAL |-> "Critical", MAJOR |-> "Major", MINOR |-> "Minor",
     WARNING |-> "Warning", FATAL |-> "Fatal",
     INFORMATIONAL |-> "Informational", NOT_SPECIFIED |-> "NotSpecified"]
Category ==
    [FAULT |-> "Fault", RECOVERY |-> "Recovery",
     NOT_SPECIFIED |-> "NotSpecified"]
EQUIPMENT_ALARM == "EquipmentAlarm"
DEFAULT_RESOURCE_TYPE == "Storage"
AUTOMATIC == "Automatic"

\* AlertHandler.SEVERITY_MAP
SEVERITY_MAP ==
    [critical |-> Severity.CRITICAL,
     major |-> Severity.MAJOR,
     minor |-> Severity.MINOR,
     degraded |-> Severity.WARNING,
     fatal |-> Severity.FATAL,
     info |-> Severity.INFORMATIONAL,
     debug |-> Severity.NOT_SPECIFIED]

\* AlertHandler.CATEGORY_MAP
CATEGORY_MAP ==
    [undefined |-> Category.NOT_SPECIFIED,
     new |-> Category.FAULT,
     acknowledged |-> Category.RECOVERY,
     fixed |-> Category.RECOVERY,
     removed |-> Category.RECOVERY,
     autofixed |-> Category.RECOVERY]

\* AlertHandler._mandatory_alert_attributes
MandatoryAlertAttributesWithoutSerial ==
    <<"component", "details", "nodeID", "severity", "timeOccurred", "id",
      "messageCode", "state">>

MandatoryAlertAttributes ==
    <<"component", "details", "nodeID", "severity", "timeOccurred", "id",
      "messageCode", "state", "serialNumber">>

\* AlertHandler.hpe3par_command_removealert, HPE3PAR_COMMAND_SHOWALERT
Hpe3parCommandRemovealert == "removealert -f "
HPE3PAR_COMMAND_SHOWALERT == "showalert -d"

\* dict.get(key, default) on a table
MapGet(map, key, default) ==
    IF key \in DOMAIN map THEN map[key] ELSE default

\* time.strptime(time_str, '%Y-%m-%d %H:%M:%S CST'): <<>> stands for raising
\* ValueError, which every string that does not match the pattern does
Strptime(time_str) ==
    CASE time_str = "1970-01-02 00:00:00 CST" ->
             <<[tm_year |-> 1970, tm_mon |-> 1, tm_mday |-> 2,
                tm_hour |-> 0, tm_min |-> 0, tm_sec |-> 0]>>
      [] time_str = "1970-01-03 10:20:30 CST" ->
             <<[tm_year |-> 1970, tm_mon |-> 1, tm_mday |-> 3,
                tm_hour |-> 10, tm_min |-> 20, tm_sec |-> 30]>>
      [] OTHER -> <<>>

\* time.mktime for a time of January 1970, the local zone being UTC: seconds
Mktime(t) ==
    (((t.tm_mday - 1) * 24 + t.tm_hour) * 60 + t.tm_min) * 60 + t.tm_sec

\* a time stamp conversion that takes an unparsable string for the epoch
GetTimeStampOfEpoch(time_str) ==
    IF time_str = None
    THEN <<>>
    ELSE IF Strptime(time_str) = <<>>
         THEN <<0>>
         ELSE <<Mktime(Strptime(time_str)[1]) * 1000>>

\* AlertHandler.get_time_stamp: <<>> is None, <<ms>> the epoch milliseconds
GetTimeStamp(time_str) ==
    IF time_str = None
    THEN <<>>
    ELSE IF Strptime(time_str) = <<>>
         THEN <<>>
         ELSE <<Mktime(Strptime(time_str)[1]) * 1000>>

\* the traps the model hands to parse_alert
Traps ==
    [component : {Absent, "", "sw_node:0"},
     details : {Absent, "Node 0 degraded"},
     nodeID : {Absent, "0"},
     severity : {Absent, "", "Critical"} \cup DOMAIN SEVERITY_MAP,
     timeOccurred : {Absent, "1970-01-02 00:00:00 CST", "2020-6-25,1:42:26.0"},
     id : {Absent, "1"},
     messageCode : {Absent, "", "0x2200de"},
     state : {Absent, "cleared"} \cup DOMAIN CATEGORY_MAP,
     serialNumber : {Absent, "1307327"}]

\* a severity lookup that takes an unknown severity for an informational one
TrapSeverityDefaultsToInfo(severity) ==
    MapGet(SEVERITY_MAP, severity, Severity.INFORMATIONAL)

\* parse_alert, lines 84-85: self.SEVERITY_MAP.get(alert.get('severity'), ...)
TrapSeverity(severity) ==
    MapGet(SEVERITY_MAP, severity, Severity.NOT_SPECIFIED)

\* a category lookup that takes an unknown state for a fault
TrapCategoryDefaultsToFault(state) ==
    MapGet(CATEGORY_MAP, state, Category.FAULT)

\* parse_alert, lines 86-87: self.CATEGORY_MAP.get(alert.get('state'), ...)
TrapCategory(state) ==
    MapGet(CATEGORY_MAP, state, Category.NOT_SPECIFIED)

\* parse_alert, lines 82-101: the alert model of a trap that has its
\* mandatory attributes
AlertModelOfTrap(alert) ==
    LET alert_model ==
            [alert_id |-> Get(alert, "messageCode"),
             alert_name |-> Get(alert, "messageCode"),
             severity |-> TrapSeverity(Get(alert, "severity")),
             category |-> TrapCategory(Get(alert, "state")),
             type |-> EQUIPMENT_ALARM,
             sequence_number |-> Get(alert, "id"),
             occur_time |-> GetTimeStamp(Get(alert, "timeOccurred")),
             description |-> Get(alert, "details"),
             resource_type |-> DEFAULT_RESOURCE_TYPE,
             location |-> Get(alert, "component")]
    IN  IF Get(alert, "state") = "autofixed"
        THEN [k \in DOMAIN alert_model \cup {"clear_category"} |->
                 IF k = "clear_category" THEN AUTOMATIC ELSE alert_model[k]]
        ELSE alert_model

\* AlertHandler.parse_alert: what it returns or raises
ParseAlertResult(alert) ==
    IF \E i \in 1..Len(MandatoryAlertAttributes) :
           Falsy(Get(alert, MandatoryAlertAttributes[i]))
    THEN Respond("InvalidInput", <<>>)
    ELSE Respond("ok", <<AlertModelOfTrap(alert)>>)

\* AlertHandler.parse_alert
ParseAlert(alert) ==
    /\ req' = Request("parse_alert", "", <<alert>>)
    /\ resp' = ParseAlertResult(alert)
    /\ steps' = <<>>
    /\ UNCHANGED <<db, syncCalls>>

ParseAlertCall ==
    /\ req = <<>>
    /\ \E alert \in Traps : ParseAlert(alert)

\* the longest 'showalert -d' output built of the common lines, and the
\* longest built of all the lines
MaxLines == 4
MaxShortLines == 2

\* A line of the output is the sequence of the pieces that ': ' separates in
\* it: <<"Id", "1">> is 'Id: 1', <<"Id">> is 'Id', <<"">> is an empty line.
CommonLines ==
    {<<"Id", "1">>, <<"Message Code", "0x2200de">>,
     <<"Time", "1970-01-02 00:00:00 CST">>, <<"Severity", "Major">>,
     <<"State", "New">>, <<"Type", "Node">>,
     <<"Message", "Node 0", "degraded">>,
     <<"Component", "sw_node:0">>, <<"Component", "sw_node:1">>,
     <<"">>, <<"Id">>, <<"Severity:Major">>}

RareLines ==
    {<<"Time", "2020-6-25,1:42:26.0">>, <<"Severity", "Unknown">>,
     <<"Severity", "Minor">>, <<"Severity", "Critical">>,
     <<"Severity", "Degraded">>, <<"Severity", "Fatal">>,
     <<"Severity", "Informational">>, <<"Severity", "Debug">>,
     <<"State", "Acknowledged">>, <<"Foo", "bar">>, <<"Severity">>}

SeqsUpTo(S, n) == UNION {[1..k -> S] : k \in 0..n}

\* what sshclient.doexec may return for 'showalert -d', split at '\n'
Outputs ==
    SeqsUpTo(CommonLines, MaxLines)
        \cup SeqsUpTo(CommonLines \cup RareLines, MaxShortLines)

\* the text of some pieces, ': ' put back between them
RECURSIVE Join(_)
Join(pieces) ==
    IF Len(pieces) = 1
    THEN pieces[1]
    ELSE pieces[1] \o ": " \o Join(Tail(pieces))

\* a split at the first ':' whether or not a space follows it
SplitOnceAtColon(strline) ==
    IF strline = <<"Severity:Major">>
    THEN <<"Severity", "Major">>
    ELSE IF Len(strline) = 1
         THEN strline
         ELSE <<strline[1], Join(Tail(strline))>>

\* strline.split(': ', 1)
SplitOnce(strline) ==
    IF Len(strline) = 1
    THEN strline
    ELSE <<strline[1], Join(Tail(strline))>>

\* strinfo[0].replace(" ", "")
RemoveSpaces(s) ==
    CASE s = "Message Code" -> "MessageCode"
      [] OTHER -> s

\* the keys list_alerts reads the value of
RecognisedKeys ==
    {"Id", "State", "MessageCode", "Time", "Severity", "Type", "Message",
     "Component"}

\* list_alerts, lines 147-154 and 209-216: the fields of the block being read
NoFields ==
    [message_code |-> "", event_type |-> "", severity |-> "", state |-> "",
     alarm_id |-> "", occur_time |-> "", alert_message |-> "",
     component |-> ""]

\* list_alerts, lines 163-165: only 'New' sets the category
ListState(state, value) ==
    IF value = "New" THEN Category.FAULT ELSE state

\* list_alerts, lines 170-184: a value that is none of the seven leaves the
\* severity as it was
ListSeverity(severity, value) ==
    CASE value = "Major"         -> Severity.MAJOR
      [] value = "Minor"         -> Severity.MINOR
      [] value = "Critical"      -> Severity.CRITICAL
      [] value = "Degraded"      -> Severity.WARNING
      [] value = "Fatal"         -> Severity.FATAL
      [] value = "Informational" -> Severity.INFORMATIONAL
      [] value = "Debug"         -> Severity.NOT_SPECIFIED
      [] OTHER                   -> severity

\* list_alerts, lines 161-191: the fields after a line of a recognised key
ReadField(fields, key, value) ==
    CASE key = "Id"          -> [fields EXCEPT !.alarm_id = value]
      [] key = "State"       ->
             [fields EXCEPT !.state = ListState(fields.state, value)]
      [] key = "MessageCode" -> [fields EXCEPT !.message_code = value]
      [] key = "Time"        -> [fields EXCEPT !.occur_time = value]
      [] key = "Severity"    ->
             [fields EXCEPT !.severity = ListSeverity(fields.severity, value)]
      [] key = "Type"        -> [fields EXCEPT !.event_type = value]
      [] key = "Message"     -> [fields EXCEPT !.alert_message = value]
      [] key = "Component"   -> [fields EXCEPT !.component = value]

\* list_alerts, lines 193-204
AlertModelOfFields(fields) ==
    [alert_id |-> fields.message_code,
     alert_name |-> fields.event_type,
     severity |-> fields.severity,
     category |-> fields.state,
     type |-> EQUIPMENT_ALARM,
     sequence_number |-> fields.alarm_id,
     occur_time |-> GetTimeStamp(fields.occur_time),
     description |-> fields.alert_message,
     resource_type |-> DEFAULT_RESOURCE_TYPE,
     location |-> fields.component]

\* a reset that forgets everything but the alarm id
FieldsAfterAppendKeepsId(fields) ==
    [NoFields EXCEPT !.alarm_id = fields.alarm_id]

\* list_alerts, lines 209-216: the fields after an alert was appended
FieldsAfterAppend(fields) == NoFields

\* list_alerts, lines 158-217: the loop over the lines.  Reading strinfo[1]
\* of a line that has no ': ' is an IndexError, which the handler of line 219
\* turns into a StorageBackendException.
RECURSIVE ListAlertsLoop(_, _, _)
ListAlertsLoop(alertlist, fields, alert_list) ==
    IF alertlist = <<>>
    THEN Respond("ok", <<alert_list>>)
    ELSE LET strline == Head(alertlist)
             strinfo == SplitOnce(strline)
             key == RemoveSpaces(strinfo[1])
         IN  IF Join(strline) = ""
             THEN ListAlertsLoop(Tail(alertlist), fields, alert_list)
             ELSE IF key \notin RecognisedKeys
             THEN ListAlertsLoop(Tail(alertlist), fields, alert_list)
             ELSE IF Len(strinfo) < 2
             THEN Respond("StorageBackendException", <<>>)
             ELSE LET read == ReadField(fields, key, strinfo[2])
                  IN  IF key = "Component"
                      THEN ListAlertsLoop(Tail(alertlist),
                               FieldsAfterAppend(read),
                               Append(alert_list, AlertModelOfFields(read)))
                      ELSE ListAlertsLoop(Tail(alertlist), read, alert_list)

\* a command handed to sshclient.doexec, whether the transport carried it,
\* and what the array answered
Doexec(command, carried, output) ==
    [call |-> "doexec", ok |-> carried, command |-> command,
     output |-> output]

\* a list_alerts whose alarm id is kept by the handler between two calls
\* (in syncCalls, which the alert handler has no other use for)
ListAlertsSharedFields(carried, reslist) ==
    LET last_end == {j \in 1..Len(reslist) :
                        /\ Len(reslist[j]) >= 2
                        /\ reslist[j][1] = "Component"
                        /\ \A k \in (j+1)..Len(reslist) :
                               ~(Len(reslist[k]) >= 2 /\ reslist[k][1] = "Component")}
        left == {j \in 1..Len(reslist) :
                    /\ Len(reslist[j]) >= 2
                    /\ reslist[j][1] = "Id"
                    /\ \A k \in last_end : k < j}
        start == IF syncCalls = <<>> THEN NoFields ELSE syncCalls[1]
    IN  /\ req' = Request("list_alerts", "", <<>>)
        /\ steps' = <<Doexec(HPE3PAR_COMMAND_SHOWALERT, carried,
                             IF carried THEN reslist ELSE <<>>)>>
        /\ resp' = IF carried
                   THEN ListAlertsLoop(reslist, start, <<>>)
                   ELSE Respond("StorageBackendException", <<>>)
        /\ syncCalls' = IF carried /\ left # {}
                        THEN <<[NoFields EXCEPT !.alarm_id = "1"]>>
                        ELSE IF carried THEN <<>> ELSE syncCalls
        /\ db' = db

\* AlertHandler.list_alerts
ListAlerts(carried, reslist) ==
    /\ req' = Request("list_alerts", "", <<>>)
    /\ steps' = <<Doexec(HPE3PAR_COMMAND_SHOWALERT, carried,
                         IF carried THEN reslist ELSE <<>>)>>
    /\ resp' = IF carried
               THEN ListAlertsLoop(reslist, NoFields, <<>>)
               ELSE Respond("StorageBackendException", <<>>)
    /\ UNCHANGED <<db, syncCalls>>

ListAlertsCall ==
    /\ req = <<>>
    /\ \E carried \in BOOLEAN, reslist \in Outputs :
           ListAlerts(carried, reslist)

\* the alerts a caller asks to clear, named by their sequence number, and
\* the SSH clients the handler may be given
AlertsToClear == {None, "1", "2"}
SshClients == {None, "sshclient"}

\* what doexec of the remove command may do: the transport fails, or the
\* array answers that it removed the alert or that it did not
ClearAnswers == {"transport failed", "removed", "Unable to remove alert"}

\* clear_alert, line 123: command_str
ClearCommand(alert) == Hpe3parCommandRemovealert

\* clear_alert, lines 122 and 127: re
ClearResult(answer) == "Success"

\* AlertHandler.clear_alert
ClearAlert(sshclient, alert, answer) ==
    /\ req' = Request("clear_alert", "", <<alert>>)
    /\ IF alert # None /\ sshclient # None
       THEN /\ steps' = <<Doexec(ClearCommand(alert),
                                 answer # "transport failed", answer)>>
            /\ resp' = IF answer = "transport failed"
                       THEN Respond("StorageBackendException", <<>>)
                       ELSE Respond("ok", <<ClearResult(answer)>>)
       ELSE /\ steps' = <<>>
            /\ resp' = Respond("ok", <<"Failed">>)
    /\ UNCHANGED <<db, syncCalls>>

ClearAlertCall ==
    /\ req = <<>>
    /\ \E sshclient \in SshClients, alert \in AlertsToClear,
          answer \in ClearAnswers :
           ClearAlert(sshclient, alert, answer)

\* the trap receiver configurations a caller hands over
TrapConfigs == {"192.0.2.1:162", "192.0.2.2:162"}

\* a trap configuration call that tells the array
TrapConfigSent(trap_config) ==
    [raised |-> FALSE, commands |-> <<Doexec("setsnmpmgr", TRUE, trap_config)>>]

\* add_trap_config and remove_trap_config, lines 108-116: pass
TrapConfigBody(trap_config) ==
    [raised |-> FALSE, commands |-> <<>>]

\* AlertHandler.add_trap_config
AddTrapConfig(storage_id, trap_config) ==
    LET done == TrapConfigBody(trap_config)
    IN  /\ req' = Request("add_trap_config", storage_id, <<trap_config>>)
        /\ resp' = IF done.raised
                   THEN Respond("StorageBackendException", <<>>)
                   ELSE Respond("ok", <<None>>)
        /\ steps' = done.commands
        /\ UNCHANGED <<db, syncCalls>>

AddTrapConfigCall ==
    /\ req = <<>>
    /\ \E storage_id \in Storages, trap_config \in TrapConfigs :
           AddTrapConfig(storage_id, trap_config)

\* AlertHandler.remove_trap_config
RemoveTrapConfig(storage_id, trap_config) ==
    LET done == TrapConfigBody(trap_config)
    IN  /\ req' = Request("remove_trap_config", storage_id, <<trap_config>>)
        /\ resp' = IF done.raised
                   THEN Respond("StorageBackendException", <<>>)
                   ELSE Respond("ok", <<None>>)
        /\ steps' = done.commands
        /\ UNCHANGED <<db, syncCalls>>

RemoveTrapConfigCall ==
    /\ req = <<>>
    /\ \E storage_id \in Storages, trap_config \in TrapConfigs :
           RemoveTrapConfig(storage_id, trap_config)

(***************************************************************************)
(* The REST session of the driver (delfin/drivers/hpe/hpe_3par/            *)
(* rest_client.py): call(method, path) sends the request with the cached   *)
(* token; when the array answers that the authorization has expired it     *)
(* logs in again and sends the request once more.                          *)
(***************************************************************************)
\* the number of answers the array has ready for the requests of one call
MaxAnswers == 3

RestMethods == {"GET", "POST", "DELETE"}
RestPaths == {"/alerts", "/system"}
RestAnswer == {"ok", "authorization expired", "failed"}
RestAnswers == [1..MaxAnswers -> RestAnswer]

\* a request or a login of the session, and how the array answered it
RestStep(call, answer) == [call |-> call, ok |-> answer = "ok", answer |-> answer]

\* a session that does not remember that it has logged in again
ReloggedStaysUnset(relogged) == relogged

\* call: after the login the session has used its one re-login
ReloggedAfterLogin(relogged) == TRUE

\* call: the requests and logins of one call, and its outcome
RECURSIVE RestAttempt(_, _, _)
RestAttempt(answers, login_answer, relogged) ==
    IF answers = <<>>
    THEN [status |-> "BackendUnavailableError", steps |-> <<>>]
    ELSE LET answer == Head(answers)
             sent == <<RestStep("request", answer)>>
         IN  IF answer = "ok"
             THEN [status |-> "ok", steps |-> sent]
             ELSE IF answer = "failed" \/ relogged
             THEN [status |-> "BackendUnavailableError", steps |-> sent]
             ELSE IF login_answer # "ok"
             THEN [status |-> "InvalidCredentialsError",
                   steps |-> sent \o <<RestStep("login", login_answer)>>]
             ELSE LET again == RestAttempt(Tail(answers), login_answer,
                                           ReloggedAfterLogin(relogged))
                  IN  [status |-> again.status,
                       steps |-> sent \o <<RestStep("login", login_answer)>>
                                      \o again.steps]

\* RestClient.call
RestCall(method, path, answers, login_answer) ==
    LET done == RestAttempt(answers, login_answer, FALSE)
    IN  /\ req' = Request("rest_call", path, <<method>>)
        /\ resp' = Respond(done.status, <<>>)
        /\ steps' = done.steps
        /\ UNCHANGED <<db, syncCalls>>

RestCallCall ==
    /\ req = <<>>
    /\ \E method \in RestMethods, path \in RestPaths, answers \in RestAnswers,
          login_answer \in {"ok", "failed"} :
           RestCall(method, path, answers, login_answer)

\* the call returns to the driver manager
DriverReturn ==
    /\ req # <<>>
    /\ req' = <<>>
    /\ resp' = <<>>
    /\ steps' = <<>>
    /\ UNCHANGED <<db, syncCalls>>

DriverNext ==
    \/ ParseAlertCall
    \/ ListAlertsCall
    \/ ClearAlertCall
    \/ AddTrapConfigCall
    \/ RemoveTrapConfigCall
    \/ RestCallCall
    \/ DriverReturn

DriverSpec == Init /\ [][DriverNext]_vars

(***************************************************************************)
(* Properties of the alert handler                                         *)
(***************************************************************************)
\* the argument of the call being served and the value it returned
Argument == req[1].body[1]
Returned == resp[1].view[1]

\* the nine attributes a trap must carry
NineMandatory ==
    {"component", "details", "nodeID", "severity", "timeOccurred", "id",
     "messageCode", "state", "serialNumber"}

\* C11: parse_alert raises InvalidInput if and only if at least one of the
\* nine mandatory trap fields is missing or empty, and raises nothing else;
\* a trap that lacks a single mandatory field fails and a trap that has all
\* nine does not.
C11_InvalidInputIffMissing ==
    Served("parse_alert") =>
        /\ Status \in {"ok", "InvalidInput"}
        /\ Status = "InvalidInput" <=>
               \E k \in NineMandatory : Missing(Argument, k)

\* C11 witness: a trap that lacks only serialNumber is refused
C11_Witness ==
    /\ Served("parse_alert")
    /\ Status = "InvalidInput"
    /\ Missing(Argument, "serialNumber")
    /\ \A k \in NineMandatory \ {"serialNumber"} : ~Missing(Argument, k)

\* C12: for a trap that has its mandatory fields parse_alert returns an
\* alert whose severity is the SEVERITY_MAP entry of the trap's severity
\* when that is one of critical, major, minor, degraded, fatal, info, debug,
\* and NOT_SPECIFIED for every other string; it does not raise.
C12_SeverityMapped ==
    (Served("parse_alert") /\ \A k \in NineMandatory : ~Missing(Argument, k)) =>
        /\ Status = "ok"
        /\ LET vendor == Argument["severity"]
           IN  Returned.severity =
                   CASE vendor = "critical" -> "Critical"
                     [] vendor = "major"    -> "Major"
                     [] vendor = "minor"    -> "Minor"
                     [] vendor = "degraded" -> "Warning"
                     [] vendor = "fatal"    -> "Fatal"
                     [] vendor = "info"     -> "Informational"
                     [] vendor = "debug"    -> "NotSpecified"
                     [] OTHER               -> "NotSpecified"

\* C12 witness: a trap whose severity is not a key of the table
C12_Witness ==
    /\ Served("parse_alert")
    /\ Status = "ok"
    /\ Argument["severity"] = "Critical"
    /\ Returned.severity = Severity.NOT_SPECIFIED

\* what the array answered to the command of the call being served
Output == steps[1].output
Carried == steps[1].ok

\* line is 'key: value', the key written with or without spaces
IsField(line, key) ==
    /\ Len(line) >= 2
    /\ \/ line[1] = key
       \/ key = "MessageCode" /\ line[1] = "Message Code"
ValueOf(line) == Join(Tail(line))

Largest(S) == CHOOSE n \in S : \A m \in S : m <= n

\* the lines that end a block, and the first line of the block a line ends
Ends(out) == {i \in 1..Len(out) : IsField(out[i], "Component")}
BlockStart(out, i) ==
    LET before == {j \in Ends(out) : j < i}
    IN  IF before = {} THEN 1 ELSE Largest(before) + 1
Block(out, i) == SubSeq(out, BlockStart(out, i), i)
Rank(out, i) == Cardinality({j \in Ends(out) : j <= i})

\* the value the block ending at line i gives for key, "" when it has none
ValueIn(out, i, key) ==
    LET at == {j \in BlockStart(out, i)..i : IsField(out[j], key)}
    IN  IF at = {} THEN "" ELSE ValueOf(out[Largest(at)])

\* every line is 'Key: Value' and the last one is a Component line
CompleteBlocks(out) ==
    /\ \A i \in 1..Len(out) : Len(out[i]) >= 2
    /\ out # <<>> => Len(out) \in Ends(out)

\* C13: given output made of N complete blocks, list_alerts returns exactly N
\* alerts in input order, and the i-th alert is made of the i-th block only:
\* its id, name, sequence number, description and location are the values
\* that block gives (empty when it gives none), and the whole alert is the
\* one list_alerts returns for that block alone.
C13_BlocksInOrder ==
    (Served("list_alerts") /\ Carried /\ CompleteBlocks(Output)) =>
        /\ Status = "ok"
        /\ Len(Returned) = Cardinality(Ends(Output))
        /\ \A i \in Ends(Output) :
              LET alert == Returned[Rank(Output, i)]
                  alone == ListAlertsLoop(Block(Output, i), NoFields, <<>>)
              IN  /\ alert.location = ValueIn(Output, i, "Component")
                  /\ alert.alert_id = ValueIn(Output, i, "MessageCode")
                  /\ alert.alert_name = ValueIn(Output, i, "Type")
                  /\ alert.sequence_number = ValueIn(Output, i, "Id")
                  /\ alert.description = ValueIn(Output, i, "Message")
                  /\ alone[1].view[1] = <<alert>>

\* C13 witness: two blocks, the first with an Id and a Message Code and the
\* second with neither, give two alerts in that order
C13_Witness ==
    /\ Served("list_alerts")
    /\ Carried
    /\ Output = <<(<<"Id", "1">>), (<<"Message Code", "0x2200de">>),
                  (<<"Component", "sw_node:1">>), (<<"Component", "sw_node:0">>)>>
    /\ Status = "ok"
    /\ Len(Returned) = 2
    /\ Returned[1].sequence_number = "1"
    /\ Returned[1].location = "sw_node:1"
    /\ Returned[2].sequence_number = ""
    /\ Returned[2].location = "sw_node:0"

\* the canonical values of an alert's severity and category
CanonicalSeverities ==
    {"Fatal", "Critical", "Major", "Minor", "Warning", "Informational",
     "NotSpecified"}
CanonicalCategories == {"Fault", "Recovery", "NotSpecified"}

\* a line that is neither empty nor 'Key: Value'
Malformed(line) == Len(line) = 1 /\ line[1] # ""

\* the blocks that end with their Component line and have no malformed line
WellFormedEnds(out) ==
    {i \in Ends(out) :
        \A j \in BlockStart(out, i)..i : ~Malformed(out[j])}

\* C14: when the SSH command succeeds list_alerts does not raise, whatever
\* malformed lines the output has (a recognised key on a line without ': '
\* among them), and it returns at least the well-formed records.
C14_MalformedSkipped ==
    (Served("list_alerts") /\ Carried) =>
        /\ Status = "ok"
        /\ Len(Returned) >= Cardinality(WellFormedEnds(Output))

\* C15: every alert list_alerts returns has a canonical severity and a
\* category among FAULT, RECOVERY and NOT_SPECIFIED; an unrecognised or
\* absent Severity or State gives NOT_SPECIFIED, never an empty value.
C15_ListedCanonical ==
    (Served("list_alerts") /\ Status = "ok") =>
        \A n \in 1..Len(Returned) :
            /\ Returned[n].severity \in CanonicalSeverities
            /\ Returned[n].category \in CanonicalCategories

\* C16: every alert parse_alert or list_alerts produces carries a non-empty
\* alert_id; a trap without messageCode or a block without a Message Code
\* line produces no alert with an empty alert_id.
C16_AlertIdNeverEmpty ==
    /\ (Served("parse_alert") /\ Status = "ok") =>
           Returned.alert_id \notin {"", Absent, None}
    /\ (Served("list_alerts") /\ Status = "ok") =>
           \A n \in 1..Len(Returned) :
               Returned[n].alert_id \notin {"", Absent, None}

\* a vendor time that has the fixed format '%Y-%m-%d %H:%M:%S CST'
MatchesTimePattern(time_str) ==
    time_str \in {"1970-01-02 00:00:00 CST", "1970-01-03 10:20:30 CST"}

\* C17: a vendor time that does not match the fixed format raises nothing
\* and drops no alert: parse_alert returns the alert of a trap that has its
\* mandatory fields with occur_time null, and list_alerts, when the output
\* has no malformed line, returns an alert for every Component line, with
\* occur_time null for a block whose Time does not match or is absent.
C17_BadTimeIsNull ==
    /\ ( /\ Served("parse_alert")
         /\ \A k \in NineMandatory : ~Missing(Argument, k)
         /\ ~MatchesTimePattern(Argument["timeOccurred"]) ) =>
           /\ Status = "ok"
           /\ Returned.occur_time = <<>>
           /\ GetTimeStamp(Argument["timeOccurred"]) = <<>>
    /\ ( /\ Served("list_alerts")
         /\ Carried
         /\ \A j \in 1..Len(Output) : ~Malformed(Output[j]) ) =>
           /\ Status = "ok"
           /\ Len(Returned) = Cardinality(Ends(Output))
           /\ \A i \in Ends(Output) :
                  ~MatchesTimePattern(ValueIn(Output, i, "Time")) =>
                      Returned[Rank(Output, i)].occur_time = <<>>

\* C17 witness: a block whose Time is not in the fixed format is listed
\* without a time
C17_Witness ==
    /\ Served("list_alerts")
    /\ Carried
    /\ Output = <<(<<"Time", "2020-6-25,1:42:26.0">>),
                  (<<"Component", "sw_node:0">>)>>
    /\ Status = "ok"
    /\ Len(Returned) = 1
    /\ Returned[1].occur_time = <<>>
    /\ Returned[1].location = "sw_node:0"

\* C18: clear_alert has three outcomes: it returns 'Success' when the array
\* accepted the clear, it returns 'Failed' without raising when the clear
\* was not performed or the array rejected it, and it raises
\* StorageBackendException only when the SSH transport failed.
C18_ThreeOutcomes ==
    Served("clear_alert") =>
        LET performed == steps # <<>>
        IN  /\ (performed /\ Carried /\ Output = "removed") =>
                   (Status = "ok" /\ Returned = "Success")
            /\ (~performed \/ (Carried /\ Output # "removed")) =>
                   (Status = "ok" /\ Returned = "Failed")
            /\ Status = "StorageBackendException" <=>
                   (performed /\ ~Carried)

\* C19: the command clear_alert sends names the alert by the sequence
\* number the caller gave, so it differs from the command that clears any
\* other alert.
C19_ClearIsTargeted ==
    (Served("clear_alert") /\ steps # <<>>) =>
        \A other \in AlertsToClear \ {None, Argument} :
            steps[1].command # ClearCommand(other)

\* C20: in any sequence of calls add_trap_config and remove_trap_config do
\* not raise, send the array nothing and change nothing the driver or the
\* application keeps, so a second add of the same configuration or a remove
\* of one that is not registered leaves the state a single call leaves.
C20_TrapConfigIdempotent ==
    [][(Serves("add_trap_config") \/ Serves("remove_trap_config")) =>
           /\ resp'[1].status = "ok"
           /\ steps' = <<>>
           /\ UNCHANGED <<db, syncCalls>>
      ]_vars

\* C20 witness: a configuration was added and the array was sent nothing
C20_Witness ==
    /\ Served("add_trap_config")
    /\ Argument = "192.0.2.1:162"
    /\ Status = "ok"
    /\ steps = <<>>

\* C29: for a trap that has its mandatory fields parse_alert returns an
\* alert whose category is FAULT for state new, RECOVERY for acknowledged,
\* fixed, removed and autofixed, and NOT_SPECIFIED for undefined and for
\* every other state, without raising; the alert has a clear_category,
\* AUTOMATIC, if and only if the state is autofixed.
C29_CategoryAndClearCategory ==
    (Served("parse_alert") /\ \A k \in NineMandatory : ~Missing(Argument, k)) =>
        /\ Status = "ok"
        /\ LET state == Argument["state"]
           IN  /\ Returned.category =
                      CASE state = "new" -> "Fault"
                        [] state \in {"acknowledged", "fixed", "removed",
                                      "autofixed"} -> "Recovery"
                        [] OTHER -> "NotSpecified"
               /\ "clear_category" \in DOMAIN Returned <=> state = "autofixed"
               /\ state = "autofixed" => Returned.clear_category = "Automatic"

\* C29 witness: a trap whose state is not a key of the table
C29_Witness ==
    /\ Served("parse_alert")
    /\ Status = "ok"
    /\ Argument["state"] = "cleared"
    /\ Returned.category = Category.NOT_SPECIFIED
    /\ "clear_category" \notin DOMAIN Returned

\* C26: the record boundary of list_alerts is the Component line and nothing
\* else.  When list_alerts returns, it returns one alert for each Component
\* line, in order; each alert is made of the lines between the Component
\* line before it and its own, blank lines and lines of unread keys not
\* counting, so fields read before a blank line are carried into the next
\* alert, a field the lines do not give is empty, and fields after the last
\* Component line produce no alert.
C26_ComponentIsTheBoundary ==
    (Served("list_alerts") /\ Status = "ok") =>
        /\ Len(Returned) = Cardinality(Ends(Output))
        /\ \A i \in Ends(Output) :
              LET alert == Returned[Rank(Output, i)]
              IN  /\ alert.location = ValueIn(Output, i, "Component")
                  /\ alert.alert_id = ValueIn(Output, i, "MessageCode")
                  /\ alert.alert_name = ValueIn(Output, i, "Type")
                  /\ alert.sequence_number = ValueIn(Output, i, "Id")
                  /\ alert.description = ValueIn(Output, i, "Message")

\* C26 witness: an Id, a blank line, two Component lines and an Id that no
\* Component line follows give two alerts, the first with the Id and the
\* second without
C26_Witness ==
    /\ Served("list_alerts")
    /\ Output = <<(<<"Id", "1">>), (<<"">>), (<<"Component", "sw_node:0">>),
                  (<<"Component", "sw_node:1">>)>>
    /\ Status = "ok"
    /\ Len(Returned) = 2
    /\ Returned[1].sequence_number = "1"
    /\ Returned[2].sequence_number = ""
    /\ Returned[2].location = "sw_node:1"

\* what a block says of the severity, the category and the time of its alert
SeverityIn(out, i) ==
    LET read == {"Major", "Minor", "Critical", "Degraded", "Fatal",
                 "Informational", "Debug"}
        at == {j \in BlockStart(out, i)..i :
                  IsField(out[j], "Severity") /\ ValueOf(out[j]) \in read}
        value == ValueOf(out[Largest(at)])
    IN  IF at = {} THEN ""
        ELSE CASE value = "Major" -> "Major"
               [] value = "Minor" -> "Minor"
               [] value = "Critical" -> "Critical"
               [] value = "Degraded" -> "Warning"
               [] value = "Fatal" -> "Fatal"
               [] value = "Informational" -> "Informational"
               [] value = "Debug" -> "NotSpecified"
CategoryIn(out, i) ==
    IF \E j \in BlockStart(out, i)..i :
           IsField(out[j], "State") /\ ValueOf(out[j]) = "New"
    THEN "Fault"
    ELSE ""
TimeIn(out, i) ==
    CASE ValueIn(out, i, "Time") = "1970-01-02 00:00:00 CST" -> <<86400000>>
      [] ValueIn(out, i, "Time") = "1970-01-03 10:20:30 CST" -> <<210030000>>
      [] OTHER -> <<>>

\* the alert the lines up to the Component line i describe, by themselves
AlertIn(out, i) ==
    [alert_id |-> ValueIn(out, i, "MessageCode"),
     alert_name |-> ValueIn(out, i, "Type"),
     severity |-> SeverityIn(out, i),
     category |-> CategoryIn(out, i),
     type |-> "EquipmentAlarm",
     sequence_number |-> ValueIn(out, i, "Id"),
     occur_time |-> TimeIn(out, i),
     description |-> ValueIn(out, i, "Message"),
     resource_type |-> "Storage",
     location |-> ValueIn(out, i, "Component")]

RecognisedSpellings ==
    {"Id", "State", "MessageCode", "Message Code", "Time", "Severity",
     "Type", "Message", "Component"}
Unread(line) == Join(line) # "" /\ line[1] \notin RecognisedSpellings
WithoutUnread(out) == SelectSeq(out, LAMBDA line : ~Unread(line))

\* C28: lines whose key is not a recognised key are ignored, with or without
\* a ': ' separator: list_alerts gives for an output what it gives for the
\* output without those lines, the same alerts or the same exception, and
\* such lines alone never make it raise.
C28_UnreadLinesIgnored ==
    (Served("list_alerts") /\ Carried) =>
        /\ resp = ListAlertsLoop(WithoutUnread(Output), NoFields, <<>>)
        /\ (\A j \in 1..Len(Output) :
                Unread(Output[j]) \/ Len(Output[j]) >= 2 \/ Join(Output[j]) = "")
               => Status = "ok"

\* C28 witness: an unread line without separator between an Id line and the
\* Component line is not read as a severity and changes nothing
C28_Witness ==
    /\ Served("list_alerts")
    /\ Output = <<(<<"Id", "1">>), (<<"Severity:Major">>),
                  (<<"Component", "sw_node:0">>)>>
    /\ Status = "ok"
    /\ Len(Returned) = 1
    /\ Returned[1].severity = ""
    /\ Returned[1].sequence_number = "1"

\* C30: the request to clear an alert looks the storage up before anything
\* else: for a storage id that has no record it fails with StorageNotFound
\* and the driver's clear_alert is not called; for a storage that has one
\* clear_alert is called exactly once, after the lookup, with that storage
\* id and that sequence number.
C30_ClearChecksStorageFirst ==
    Served("alert_delete") =>
        LET id == req[1].id
            clears == Positions(steps, {"clear_alert"})
        IN  /\ steps # <<>>
            /\ steps[1].call = "storage_get"
            /\ id \notin Storages =>
                   /\ Status = "StorageNotFound"
                   /\ clears = {}
            /\ id \in Storages =>
                   /\ Cardinality(clears) = 1
                   /\ \A i \in clears :
                          /\ steps[i].storage_id = id
                          /\ steps[i].sequence_number = Argument

\* C30 witness: alert 2 of a storage that has no record is not cleared
C30_Witness ==
    /\ Served("alert_delete")
    /\ req[1].id = UnknownStorage
    /\ Argument = "2"
    /\ Status = "StorageNotFound"
    /\ ~Called(steps, {"clear_alert"})

(***************************************************************************)
(* Requests of several clients.  The controller serves each request in a   *)
(* thread of its own, and a handler can be overtaken where it calls the    *)
(* database or the alert manager: a PUT between the lookup of the old      *)
(* configuration, the write and the sync call, a DELETE between the        *)
(* lookup, the sync call and the removal of the record.  Here req holds    *)
(* for each client <<>> or the request it has in progress (its position pc *)
(* and its local variables), resp the responses sent so far, in order, and *)
(* syncCalls every sync_snmp_config call made so far, in order, with its   *)
(* outcome.                                                                *)
(***************************************************************************)
\* the number of clients and the number of requests they send in all
NumClients == 2
MaxRequests == 3

Clients == 1..NumClients

\* a body that has the fields of one SNMP version, or too few of them
BodyOf(version, community_string, username) ==
    [version |-> version,
     community_string |-> community_string,
     username |-> username,
     security_level |-> IF username = Absent THEN Absent ELSE "NoAuthNoPriv",
     engine_id |-> IF username = Absent THEN Absent
                   ELSE "800000d30300000e112245",
     auth_protocol |-> Absent,
     auth_key |-> Absent,
     privacy_protocol |-> Absent,
     privacy_key |-> Absent]

\* the PUT bodies of the clients
ClientBodies ==
    {BodyOf("SNMPv2c", "public", Absent), BodyOf("SNMPv2c", Absent, Absent)}
        \cup {BodyOf("SNMPv3", Absent, u) : u \in UserNames}

\* db.alert_source_create raises when the storage id, the primary key of the
\* table, has a row already; db.alert_source_update and
\* db.alert_source_delete raise when it has none
AlertSourceCreateRaises(d, storage_id) == d[storage_id] # <<>>
AlertSourceUpdateRaises(d, storage_id) == d[storage_id] = <<>>
AlertSourceDeleteRaises(d, storage_id) == d[storage_id] = <<>>

Active(p) == req[p] # <<>>
Started == Len(resp) + Cardinality({p \in Clients : Active(p)})
At(p, op, pc) == Active(p) /\ req[p][1].op = op /\ req[p][1].pc = pc

\* the response of client p is sent and its request is over
Reply(p, op, id, status) ==
    /\ resp' = Append(resp, [client |-> p, op |-> op, id |-> id,
                             status |-> status])
    /\ req' = [req EXCEPT ![p] = <<>>]

\* the sync_snmp_config call of client p, and whether it was carried out
SyncSnmpConfig(p, old, new, delivered) ==
    syncCalls' = Append(syncCalls, [old |-> old, new |-> new,
                                    ok |-> delivered, client |-> p])

\* put, lines 39-46: the storage is looked up and the body checked
PutStart(p) ==
    /\ ~Active(p)
    /\ Started < MaxRequests
    /\ \E id \in StorageIds, body \in ClientBodies, reachable \in BOOLEAN :
          LET alert_source ==
                  [k \in RecordKeys |->
                      IF k = "storage_id" THEN id ELSE body[k]]
              checked == InputCheck(alert_source, reachable)
          IN  IF ~StorageGet(id)
              THEN Reply(p, "put", id, "StorageNotFound")
              ELSE IF checked.error # None
              THEN Reply(p, "put", id, checked.error)
              ELSE /\ req' = [req EXCEPT ![p] =
                                 <<[op |-> "put", id |-> id, pc |-> "lookup",
                                    alert_source |-> checked.alert_source[1],
                                    old |-> <<>>, new |-> <<>>]>>]
                   /\ resp' = resp
    /\ UNCHANGED <<db, steps, syncCalls>>

\* put, line 48: snmp_config_to_del
PutLookup(p) ==
    /\ At(p, "put", "lookup")
    /\ req' = [req EXCEPT ![p][1].old = GetSnmpConfigBrief(db, req[p][1].id),
                          ![p][1].pc = "persist"]
    /\ UNCHANGED <<db, resp, steps, syncCalls>>

\* put, lines 49-52: the update or the create
PutWrite(p) ==
    /\ At(p, "put", "persist")
    /\ LET r == req[p][1]
       IN  IF r.old # <<>> /\ AlertSourceUpdateRaises(db, r.id)
           THEN /\ Reply(p, "put", r.id, "AlertSourceNotFound")
                /\ db' = db
           ELSE IF r.old = <<>> /\ AlertSourceCreateRaises(db, r.id)
           THEN /\ Reply(p, "put", r.id, "DBDuplicateEntry")
                /\ db' = db
           ELSE LET row == PutPersist(db, r.id, r.old, r.alert_source).row
                IN  /\ db' = [db EXCEPT ![r.id] = <<row>>]
                    /\ req' = [req EXCEPT ![p][1].new = <<row>>,
                                          ![p][1].pc = "sync"]
                    /\ resp' = resp
    /\ UNCHANGED <<steps, syncCalls>>

\* a sync call whose failure takes the written record back
PutSyncRollsBack(p) ==
    /\ At(p, "put", "sync")
    /\ \E delivered \in BOOLEAN :
          LET r == req[p][1]
          IN  /\ SyncSnmpConfig(p, r.old, r.new, delivered)
              /\ Reply(p, "put", r.id, IF delivered THEN "200" ELSE "RPCError")
              /\ db' = IF delivered THEN db ELSE [db EXCEPT ![r.id] = <<>>]
    /\ UNCHANGED steps

\* put, lines 53-57: the sync call and the response
PutSync(p) ==
    /\ At(p, "put", "sync")
    /\ \E delivered \in BOOLEAN :
          LET r == req[p][1]
          IN  /\ SyncSnmpConfig(p, r.old, r.new, delivered)
              /\ Reply(p, "put", r.id, IF delivered THEN "200" ELSE "RPCError")
    /\ UNCHANGED <<db, steps>>

\* delete, lines 67-71 and 75-76: snmp_config_to_del, or no record
DeleteLookup(p) ==
    /\ ~Active(p)
    /\ Started < MaxRequests
    /\ \E id \in StorageIds :
          LET old == GetSnmpConfigBrief(db, id)
          IN  IF old = <<>>
              THEN Reply(p, "delete", id, "AlertSourceNotFound")
              ELSE /\ req' = [req EXCEPT ![p] =
                                 <<[op |-> "delete", id |-> id, pc |-> "sync",
                                    old |-> old]>>]
                   /\ resp' = resp
    /\ UNCHANGED <<db, steps, syncCalls>>

\* delete, lines 72-73: the sync call
DeleteSync(p) ==
    /\ At(p, "delete", "sync")
    /\ \E delivered \in BOOLEAN :
          LET r == req[p][1]
          IN  /\ SyncSnmpConfig(p, r.old, <<>>, delivered)
              /\ IF delivered
                 THEN /\ req' = [req EXCEPT ![p][1].pc = "remove"]
                      /\ resp' = resp
                 ELSE Reply(p, "delete", r.id, "RPCError")
    /\ UNCHANGED <<db, steps>>

\* a removal that answers without removing the record
DeleteRemoveKeepsRecord(p) ==
    /\ At(p, "delete", "remove")
    /\ Reply(p, "delete", req[p][1].id, "200")
    /\ UNCHANGED <<db, steps, syncCalls>>

\* delete, line 74: the record is removed
DeleteRemove(p) ==
    /\ At(p, "delete", "remove")
    /\ LET r == req[p][1]
       IN  IF AlertSourceDeleteRaises(db, r.id)
           THEN /\ Reply(p, "delete", r.id, "AlertSourceNotFound")
                /\ db' = db
           ELSE /\ Reply(p, "delete", r.id, "200")
                /\ db' = [db EXCEPT ![r.id] = <<>>]
    /\ UNCHANGED <<steps, syncCalls>>

\* what sync_snmp_config does to the trap registrations of the array when it
\* is carried out: it removes the registration old names, then adds the one
\* of new
Registration(config) ==
    IF Lower(config["version"]) = "snmpv3"
    THEN [storage_id |-> config["storage_id"], version |-> config["version"],
          username |-> config["username"], engine_id |-> config["engine_id"]]
    ELSE [storage_id |-> config["storage_id"], version |-> config["version"]]
ApplySync(registered, call) ==
    IF ~call.ok
    THEN registered
    ELSE (registered \ {call.old[i] : i \in 1..Len(call.old)})
             \cup {Registration(call.new[i]) : i \in 1..Len(call.new)}

\* the registrations of the array after the sync calls of a log
RECURSIVE ArrayAfter(_)
ArrayAfter(log) ==
    IF log = <<>>
    THEN {}
    ELSE ApplySync(ArrayAfter(SubSeq(log, 1, Len(log) - 1)), log[Len(log)])

ClientsInit ==
    /\ db = [id \in StorageIds |-> <<>>]
    /\ req = [p \in Clients |-> <<>>]
    /\ resp = <<>>
    /\ steps = <<>>
    /\ syncCalls = <<>>

\* the clients take their steps in any order
AnyPutStart == \E p \in Clients : PutStart(p)
AnyPutLookup == \E p \in Clients : PutLookup(p)
AnyPutWrite == \E p \in Clients : PutWrite(p)
AnyPutSync == \E p \in Clients : PutSync(p)
AnyDeleteLookup == \E p \in Clients : DeleteLookup(p)
AnyDeleteSync == \E p \in Clients : DeleteSync(p)
AnyDeleteRemove == \E p \in Clients : DeleteRemove(p)

ConcNext ==
    \/ AnyPutStart
    \/ AnyPutLookup
    \/ AnyPutWrite
    \/ AnyPutSync
    \/ AnyDeleteLookup
    \/ AnyDeleteSync
    \/ AnyDeleteRemove

ConcSpec == ClientsInit /\ [][ConcNext]_vars

\* one client sends its requests one after the other
OnePutStart == PutStart(1)
OnePutLookup == PutLookup(1)
OnePutWrite == PutWrite(1)
OnePutSync == PutSync(1)
OneDeleteLookup == DeleteLookup(1)
OneDeleteSync == DeleteSync(1)
OneDeleteRemove == DeleteRemove(1)

SeqNext ==
    \/ OnePutStart
    \/ OnePutLookup
    \/ OnePutWrite
    \/ OnePutSync
    \/ OneDeleteLookup
    \/ OneDeleteSync
    \/ OneDeleteRemove

SeqSpec == ClientsInit /\ [][SeqNext]_vars

(***************************************************************************)
(* Properties of the requests of several clients                           *)
(***************************************************************************)
\* every request sent so far has been answered
Quiet == \A p \in Clients : ~Active(p)

\* every request sent so far is a PUT
OnlyPuts ==
    /\ \A n \in 1..Len(resp) : resp[n].op = "put"
    /\ \A p \in Clients : Active(p) => req[p][1].op = "put"

\* the registrations the array holds
Registered == ArrayAfter(syncCalls)

\* C22: whatever way concurrent PUT requests for one storage id interleave,
\* the storage id has at most one persisted record and no PUT fails because
\* of another: none is refused by the table for a row that another PUT
\* created or that is not there.
C22_PutsActAtomically ==
    OnlyPuts =>
        /\ \A id \in StorageIds : Len(db[id]) <= 1
        /\ \A n \in 1..Len(resp) :
               resp[n].status \notin {"DBDuplicateEntry", "AlertSourceNotFound"}

\* C23: when every sync call is carried out, then once the PUT and DELETE
\* requests on a storage id have all been answered the array holds a
\* registration exactly when the storage id has a persisted record, and it
\* is the registration of that record.
C23_ArrayAgreesWithRecord ==
    (Quiet /\ \A k \in 1..Len(syncCalls) : syncCalls[k].ok) =>
        Registered =
            UNION {{Identity(db[id][i]) : i \in 1..Len(db[id])} :
                      id \in StorageIds}

\* C24: in a history of PUT and DELETE requests sent one after the other
\* whose sync calls all succeed, the old side of each sync call is the brief
\* of the new side of the sync call before it, and is null exactly when
\* there is no sync call before it or that one was a DELETE's; so the array
\* holds at most the registration of the last PUT.
C24_OldIsPreviousNew ==
    (\A k \in 1..Len(syncCalls) : syncCalls[k].ok) =>
        /\ \A k \in 1..Len(syncCalls) :
               syncCalls[k].old =
                   IF k = 1 THEN <<>>
                   ELSE IF syncCalls[k-1].new = <<>> THEN <<>>
                   ELSE <<Identity(syncCalls[k-1].new[1])>>
        /\ Len(syncCalls) > 0 =>
               LET last == syncCalls[Len(syncCalls)]
               IN  Registered = {Identity(last.new[i]) : i \in 1..Len(last.new)}

\* C24 witness: an SNMPv3 PUT, a PUT that makes it SNMPv2c, and a DELETE
C24_Witness ==
    /\ Quiet
    /\ Len(syncCalls) = 3
    /\ \A k \in 1..3 : syncCalls[k].ok
    /\ syncCalls[1].old = <<>>
    /\ IsV3(syncCalls[1].new[1]["version"])
    /\ syncCalls[2].old = <<Identity(syncCalls[1].new[1])>>
    /\ syncCalls[2].new[1]["version"] = "SNMPv2c"
    /\ syncCalls[3].old = <<Identity(syncCalls[2].new[1])>>
    /\ syncCalls[3].new = <<>>

\* C25: a PUT whose sync call fails is not rolled back.  Once it is answered
\* the record it wrote is the persisted one, although the array was not
\* told, and the sync call that follows names that record as its old side.
C25_FailedSyncKeepsRecord ==
    \A k \in 1..Len(syncCalls) :
        (syncCalls[k].new # <<>> /\ ~syncCalls[k].ok) =>
            /\ (k = Len(syncCalls) /\ Quiet) =>
                   /\ db[syncCalls[k].new[1]["storage_id"]] = syncCalls[k].new
                   /\ \E n \in 1..Len(resp) :
                          resp[n].op = "put" /\ resp[n].status = "RPCError"
            /\ k < Len(syncCalls) =>
                   syncCalls[k+1].old = <<Identity(syncCalls[k].new[1])>>

\* C25 witness: the first PUT's sync call failed and the PUT after it names
\* as old a registration the array does not hold
C25_Witness ==
    /\ Quiet
    /\ Len(syncCalls) = 2
    /\ ~syncCalls[1].ok
    /\ syncCalls[2].new # <<>>
    /\ syncCalls[2].ok
    /\ syncCalls[2].old = <<Identity(syncCalls[1].new[1])>>
    /\ syncCalls[2].old[1] \notin ArrayAfter(SubSeq(syncCalls, 1, 1))
    /\ db["S1"] = syncCalls[2].new

\* C21: a REST call that is answered 'authorization expired' logs in again
\* exactly once and sends the request again exactly once; when the second
\* request fails too the call fails with BackendUnavailableError; no call
\* logs in more than once or sends its request more than twice.
C21_OneReloginOneRetry ==
    Served("rest_call") =>
        LET logins == Positions(steps, {"login"})
            requests == Positions(steps, {"request"})
            expired == steps[1].answer = "authorization expired"
        IN  /\ steps # <<>>
            /\ steps[1].call = "request"
            /\ Cardinality(logins) <= 1
            /\ Cardinality(requests) <= 2
            /\ ~expired =>
                   /\ logins = {}
                   /\ Cardinality(requests) = 1
            /\ expired =>
                   /\ logins = {2}
                   /\ steps[2].ok =>
                          /\ requests = {1, 3}
                          /\ Status = IF steps[3].ok THEN "ok"
                                      ELSE "BackendUnavailableError"
                   /\ ~steps[2].ok =>
                          /\ requests = {1}
                          /\ Status # "ok"

\* C21 witness: the request sent after the re-login is answered
\* 'authorization expired' as well
C21_Witness ==
    /\ Served("rest_call")
    /\ Len(steps) = 3
    /\ steps[1].answer = "authorization expired"
    /\ steps[2].call = "login"
    /\ steps[2].ok
    /\ steps[3].answer = "authorization expired"
    /\ Status = "BackendUnavailableError"

====
